---- MODULE Spec2Model ----
(***************************************************************************)
(* Model of the in-memory dataset store and summary-job subsystem of the   *)
(* health data API: services/data_service.py (DataService), the handlers   *)
(* of controllers/health_controller.py and the routes of                   *)
(* routers/health_router.py.                                               *)
(*                                                                         *)
(* Threads.  The `async def` route (upload) and every coroutine run on the *)
(* event-loop thread; the plain `def` routes (schema, query, summarize,    *)
(* jobs) are run by the framework in worker threads.  A synchronous        *)
(* stretch of loop-thread code cannot be interleaved with other loop code, *)
(* but worker threads run between any two of its statements.               *)
(*                                                                         *)
(* Optional values (Python None) are sequences of length at most one:      *)
(* <<>> is None and <<v>> is the value v.                                  *)
(***************************************************************************)
EXTENDS Integers, Sequences, FiniteSets, TLC

\* ------------------------------------------------------------------ bounds
\* Number of job identifiers uuid4 may hand out in one run.
MaxJobs == 2
\* Largest limit a query is given (the routes accept 1..1000).
MaxLimit == 2
\* Longest filter list a query is given.
MaxFilters == 2

None == <<>>
Some(v) == <<v>>

\* --------------------------------------------------------- tabular payloads
\* A cell of a parsed frame.  Int64 columns use `int`, String columns use `str`
\* (a sequence of one-character strings); a null cell has null = TRUE.
NullCell == [null |-> TRUE, int |-> 0, str |-> <<>>]
IntCell(n) == [null |-> FALSE, int |-> n, str |-> <<>>]
StrCell(s) == [null |-> FALSE, int |-> 0, str |-> s]

Digits == <<"0", "1", "2", "3", "4", "5", "6", "7", "8", "9">>

IsDigit(c) == \E i \in 1..Len(Digits) : Digits[i] = c

DigitVal(c) == (CHOOSE i \in 1..Len(Digits) : Digits[i] = c) - 1

IsDigits(s) == Len(s) > 0 /\ \A i \in 1..Len(s) : IsDigit(s[i])

RECURSIVE StrToInt(_)
StrToInt(s) ==
  IF Len(s) = 0 THEN 0
  ELSE 10 * StrToInt(SubSeq(s, 1, Len(s) - 1)) + DigitVal(s[Len(s)])

RECURSIVE IntToStr(_)
IntToStr(n) ==
  IF n < 10 THEN <<Digits[n + 1]>>
  ELSE Append(IntToStr(n \div 10), Digits[(n % 10) + 1])

\* The uploads the model draws from: a header and the data lines, every field
\* the text between two delimiters.
CsvHealth ==
  [header |-> <<"SEX (DISPLAY)", "YEAR (DISPLAY)">>,
   lines |-> << << <<"M">>, <<"1">> >>, << <<"F">>, <<"2", "0">> >> >>]

CsvHeaderOnly == [header |-> <<"a">>, lines |-> << >>]

CsvText ==
  [header |-> <<"x", "y", "z", "count", "v", "w">>,
   lines |-> << << <<"M">>, << >>, <<"F">>, <<"F">>, <<"M">>, <<"F">> >> >>]

\* A data line with more fields than the header: the parser rejects it.
CsvRagged == [header |-> <<"a">>, lines |-> << << <<"1">>, <<"2">> >> >>]

ValidPayloads == {CsvHealth, CsvHeaderOnly, CsvText}

Payloads == ValidPayloads \cup {CsvRagged}

EmptyFrame == [columns |-> <<>>, dtypes |-> <<>>, rows |-> <<>>]

\* Field c of a data line; a short line is padded with nulls.
Field(line, c) == IF c <= Len(line) THEN line[c] ELSE <<>>

\* pl.read_csv's type inference for column c: Int64 when every non-empty field
\* is a run of digits and there is one, else String.
InferDtype(p, c) ==
  LET fields == {Field(p.lines[r], c) : r \in 1..Len(p.lines)}
      filled == {f \in fields : Len(f) > 0}
  IN IF filled # {} /\ \A f \in filled : IsDigits(f) THEN "Int64" ELSE "String"

ParseCell(f, dtype) ==
  IF Len(f) = 0 THEN NullCell
  ELSE IF dtype = "Int64" THEN IntCell(StrToInt(f)) ELSE StrCell(f)

\* pl.read_csv: the parsed frame, or the parser's error.
ReadCsv(p) ==
  IF Len(p.header) = 0 THEN [ok |-> FALSE, df |-> EmptyFrame, err |-> "empty CSV"]
  ELSE IF \E r \in 1..Len(p.lines) : Len(p.lines[r]) > Len(p.header)
  THEN [ok |-> FALSE, df |-> EmptyFrame, err |-> "found more fields than defined in schema"]
  ELSE
    LET C == Len(p.header)
        dts == [c \in 1..C |-> InferDtype(p, c)]
    IN [ok |-> TRUE,
        df |-> [columns |-> p.header,
                dtypes |-> dts,
                rows |-> [r \in 1..Len(p.lines) |->
                           [c \in 1..C |-> ParseCell(Field(p.lines[r], c), dts[c])]]],
        err |-> ""]

Frames == {ReadCsv(p).df : p \in ValidPayloads}

\* Mutant: the shape with its two numbers exchanged.
ShapeSwapped(df) == <<Len(df.columns), Len(df.rows)>>

\* df.shape
Shape(df) == <<Len(df.rows), Len(df.columns)>>

\* df.head(n)
FrameHead(df, n) ==
  [df EXCEPT !.rows = SubSeq(df.rows, 1, IF n < Len(df.rows) THEN n ELSE Len(df.rows))]

\* df.to_dicts(): one dict per row, keyed by column name in schema order.
ToDicts(df) ==
  [r \in 1..Len(df.rows) |->
    [c \in 1..Len(df.columns) |-> [column |-> df.columns[c], value |-> df.rows[r][c]]]]

\* ------------------------------------------------------------------ queries
\* Whether sub occurs in s as a contiguous run (str.contains, literal=True).
Contains(s, sub) ==
  \E i \in 0..(Len(s) - Len(sub)) : SubSeq(s, i + 1, i + Len(sub)) = sub

\* cast(pl.Utf8) of a non-null cell of a column of type dtype.
CastUtf8(cell, dtype) == IF dtype = "Int64" THEN IntToStr(cell.int) ELSE cell.str

\* Index of column name col in df, 0 when df has no such column.
ColumnIndex(df, col) ==
  IF \E c \in 1..Len(df.columns) : df.columns[c] = col
  THEN CHOOSE c \in 1..Len(df.columns) : df.columns[c] = col
  ELSE 0

\* df.filter(...): the rows, in order, whose predicate is true; a null cell
\* gives a null predicate and the row is dropped.
RECURSIVE FilterRows(_, _, _, _)
FilterRows(rows, c, dtype, val) ==
  IF Len(rows) = 0 THEN <<>>
  ELSE LET cell == rows[1][c]
           keep == ~cell.null /\ Contains(CastUtf8(cell, dtype), val)
       IN (IF keep THEN <<rows[1]>> ELSE <<>>) \o FilterRows(Tail(rows), c, dtype, val)

\* Mutant: a filter on a column the frame lacks matches no row.
RECURSIVE ApplyFiltersStrict(_, _, _)
ApplyFiltersStrict(df, filters, i) ==
  IF i > Len(filters) THEN df
  ELSE LET c == ColumnIndex(df, filters[i].column)
       IN ApplyFiltersStrict(
            IF c = 0 THEN [df EXCEPT !.rows = <<>>]
            ELSE [df EXCEPT !.rows = FilterRows(df.rows, c, df.dtypes[c], filters[i].value)],
            filters, i + 1)

\* The loop of lines 41-45 over the filters from position i on.
RECURSIVE ApplyFilters(_, _, _)
ApplyFilters(df, filters, i) ==
  IF i > Len(filters) THEN df
  ELSE LET c == ColumnIndex(df, filters[i].column)
       IN ApplyFilters(
            IF c = 0 THEN df
            ELSE [df EXCEPT !.rows = FilterRows(df.rows, c, df.dtypes[c], filters[i].value)],
            filters, i + 1)

\* Mutant: the rows are returned without head(limit).
QueryDataNoLimit(df, filters, limit) == ToDicts(ApplyFilters(df, filters, 1))

\* DataService.query_data on the frame bound to df at line 40.
QueryData(df, filters, limit) == ToDicts(FrameHead(ApplyFilters(df, filters, 1), limit))

\* ------------------------------------------------------ summarization engine
\* Columns whose distribution is computed (data_service.py line 124).
DistLimit == 5
\* Distinct values kept per distribution (line 127).
TopN == 10
\* Rows of the schema sample (line 32).
SampleRows == 5

NumericDtypes == {"Float64", "Float32", "Int64", "Int32"}

ColumnCells(df, c) == [r \in 1..Len(df.rows) |-> df.rows[r][c]]

NullCount(df, c) == Cardinality({r \in 1..Len(df.rows) : df.rows[r][c].null})

MinOf(S) == IF S = {} THEN 0 ELSE CHOOSE x \in S : \A y \in S : x <= y

MaxOf(S) == IF S = {} THEN 0 ELSE CHOOSE x \in S : \A y \in S : x >= y

RECURSIVE SumCells(_)
SumCells(cells) ==
  IF Len(cells) = 0 THEN 0
  ELSE (IF cells[1].null THEN 0 ELSE cells[1].int) + SumCells(Tail(cells))

\* The numeric columns in schema order (the list comprehension of lines 101-102).
RECURSIVE NumericCols(_, _)
NumericCols(df, c) ==
  IF c > Len(df.columns) THEN <<>>
  ELSE (IF df.dtypes[c] \in NumericDtypes THEN <<c>> ELSE <<>>) \o NumericCols(df, c + 1)

\* _get_basic_statistics.  describe() is modelled by its count, null_count, sum
\* (mean = sum / count), min and max rows; std and the quartiles are left out.
GetBasicStatistics(df) ==
  LET numeric_cols == NumericCols(df, 1)
  IN IF Len(numeric_cols) = 0
     THEN [message |-> "No numeric columns found", stats |-> <<>>]
     ELSE [message |-> "",
           stats |-> [i \in 1..Len(numeric_cols) |->
             LET c == numeric_cols[i]
                 vals == {df.rows[r][c].int : r \in {q \in 1..Len(df.rows) : ~df.rows[q][c].null}}
             IN [column |-> df.columns[c],
                 count |-> Len(df.rows) - NullCount(df, c),
                 null_count |-> NullCount(df, c),
                 sum |-> SumCells(ColumnCells(df, c)),
                 min |-> MinOf(vals),
                 max |-> MaxOf(vals)]]]

\* _get_missing_values: null_count / shape[0] raises ZeroDivisionError on a frame
\* without rows.  The percentage (null_count / rows) * 100 is kept as the exact
\* fraction pct_num / pct_den.
GetMissingValues(df) ==
  IF Len(df.columns) > 0 /\ Len(df.rows) = 0
  THEN [ok |-> FALSE, missing |-> <<>>, err |-> "division by zero"]
  ELSE [ok |-> TRUE,
        missing |-> [c \in 1..Len(df.columns) |->
                      [column |-> df.columns[c],
                       null_count |-> NullCount(df, c),
                       pct_num |-> NullCount(df, c) * 100,
                       pct_den |-> Len(df.rows)]],
        err |-> ""]

\* Series.value_counts(): the distinct values with their counts, in no order.
ValueCounts(df, c) ==
  {[value |-> v, count |-> Cardinality({r \in 1..Len(df.rows) : df.rows[r][c] = v})] :
     v \in {df.rows[r][c] : r \in 1..Len(df.rows)}}

\* value_counts.head(10): all of them when there are at most ten, else ten of them.
TopCounts(vc) ==
  IF Cardinality(vc) <= TopN THEN vc
  ELSE CHOOSE s \in SUBSET vc : Cardinality(s) = TopN

\* Line 126: value_counts() names its second column "count" and raises
\* DuplicateError for a series that has that name itself.
ValueCountsFails(df, c) == df.columns[c] = "count"

\* Lines 126-129 for column c: the counts, or the marker the bare except leaves.
Distribution(df, c) ==
  IF ValueCountsFails(df, c)
  THEN [column |-> df.columns[c], counts |-> {}, error |-> "Could not compute distribution"]
  ELSE [column |-> df.columns[c], counts |-> TopCounts(ValueCounts(df, c)), error |-> ""]

\* Mutant: a distribution for every column of the frame.
GetDistributionsAll(df) == [c \in 1..Len(df.columns) |-> Distribution(df, c)]

\* _get_distributions: the first DistLimit columns, in schema order.
GetDistributions(df) ==
  LET n == IF Len(df.columns) < DistLimit THEN Len(df.columns) ELSE DistLimit
  IN [c \in 1..n |-> Distribution(df, c)]

EmptyResult ==
  [basic_statistics |-> [message |-> "", stats |-> <<>>],
   missing_values |-> <<>>,
   distributions |-> <<>>]

\* Lines 76-84 on the frame self.data holds when they run: the result, or the
\* exception that leaves them.
Summarize(df) ==
  LET mv == GetMissingValues(df)
  IN IF ~mv.ok THEN [ok |-> FALSE, result |-> EmptyResult, err |-> mv.err]
     ELSE [ok |-> TRUE,
           result |-> [basic_statistics |-> GetBasicStatistics(df),
                       missing_values |-> mv.missing,
                       distributions |-> GetDistributions(df)],
           err |-> ""]

\* -------------------------------------------------------------- job records
JobIds == 1..MaxJobs

\* Mutant: the record is created with its completion time already stamped.
NewJobStamped(ts) ==
  [status |-> "pending", created_at |-> ts, completed_at |-> Some(ts),
   result |-> None, error |-> None]

\* The record create_summary_job inserts (lines 52-58).
NewJob(ts) ==
  [status |-> "pending", created_at |-> ts, completed_at |-> None,
   result |-> None, error |-> None]

\* Line 67.
MarkRunning(rec) == [rec EXCEPT !.status = "running"]

\* Mutant: the update omits the result key.
MarkCompletedNoResult(rec, ts, result) ==
  [rec EXCEPT !.status = "completed", !.completed_at = Some(ts)]

\* Lines 86-90: one dict.update call.
MarkCompleted(rec, ts, result) ==
  [rec EXCEPT !.status = "completed", !.completed_at = Some(ts), !.result = Some(result)]

\* Mutant: the handler records the error but leaves the status as it was.
MarkFailedKeepsStatus(rec, ts, err) ==
  [rec EXCEPT !.completed_at = Some(ts), !.error = Some(err)]

\* Mutant: the handler sets the status first and the error in a later statement.
MarkFailedNoError(rec, ts, err) ==
  [rec EXCEPT !.status = "failed", !.completed_at = Some(ts)]

\* Lines 93-97: one dict.update call.
MarkFailed(rec, ts, err) ==
  [rec EXCEPT !.status = "failed", !.completed_at = Some(ts), !.error = Some(err)]

\* Mutant: create_task schedules the coroutine from any thread.
CreateTaskNeverRaises(ctx) == FALSE

\* asyncio.create_task (line 61) needs a running event loop in the calling
\* thread: it raises RuntimeError in a worker thread.
CreateTaskRaises(ctx) == ctx = "thread"

\* --------------------------------------------------------------------- state
VARIABLES
  data,            \* DataService.data: None or the loaded frame
  jobs,            \* DataService.jobs: job id -> record
  task,            \* per job id, the position of its _run_summary_job coroutine
  loop_job,        \* the job whose coroutine is inside a synchronous stretch
  now,             \* the number of datetime.now() readings taken so far
  upload_resp,     \* last response of POST /api/v1/upload
  summarize_resp,  \* last response of POST /api/v1/summarize
  job_reader,      \* the worker thread serving GET /api/v1/jobs/{job_id}
  schema_reader,   \* the worker thread serving GET /api/v1/schema
  query_reader     \* the worker thread serving GET /api/v1/query/...

vars ==
  <<data, jobs, task, loop_job, now, upload_resp, summarize_resp,
    job_reader, schema_reader, query_reader>>

NoTask == [pc |-> "none", seen |-> None]

NoUploadResp == [code |-> 0, rows |-> 0, columns |-> 0]

NoSummarizeResp == [code |-> 0, job_id |-> None, body |-> None]

\* at_lookup is a history field no action reads: the status the record had when
\* the reader took its reference.
IdleJobReader == [pc |-> "idle", id |-> 0, code |-> 0, body |-> None, at_lookup |-> ""]

IdleSchemaReader ==
  [pc |-> "idle", code |-> 0, columns |-> <<>>, zip_columns |-> <<>>,
   dtypes |-> <<>>, shape |-> <<0, 0>>, sample_data |-> <<>>]

IdleQueryReader == [pc |-> "idle", code |-> 0, filters |-> <<>>, limit |-> 0, rows |-> <<>>]

\* DataService.__init__ and the first request not yet served.
Init ==
  /\ data = None
  /\ jobs = [j \in {} |-> NewJob(0)]
  /\ task = [j \in JobIds |-> NoTask]
  /\ loop_job = None
  /\ now = 0
  /\ upload_resp = NoUploadResp
  /\ summarize_resp = NoSummarizeResp
  /\ job_reader = IdleJobReader
  /\ schema_reader = IdleSchemaReader
  /\ query_reader = IdleQueryReader

\* ------------------------------------------------------------------- upload
\* Mutant: a payload that parses to a frame without rows empties the store.
UploadCsvDropsEmpty(is_csv, p) ==
  /\ loop_job = None
  /\ IF ~is_csv
     THEN /\ upload_resp' = [code |-> 400, rows |-> 0, columns |-> 0]
          /\ UNCHANGED data
     ELSE LET r == ReadCsv(p)
          IN IF r.ok
             THEN /\ data' = (IF Len(r.df.rows) = 0 THEN None ELSE Some(r.df))
                  /\ upload_resp' =
                       [code |-> 200, rows |-> Len(r.df.rows), columns |-> Len(r.df.columns)]
             ELSE /\ upload_resp' = [code |-> 500, rows |-> 0, columns |-> 0]
                  /\ UNCHANGED data
  /\ UNCHANGED <<jobs, task, loop_job, now, summarize_resp,
                 job_reader, schema_reader, query_reader>>

\* Mutant: an upload that is refused or fails to parse empties the store.
UploadCsvClearsOnError(is_csv, p) ==
  /\ loop_job = None
  /\ IF ~is_csv
     THEN /\ upload_resp' = [code |-> 400, rows |-> 0, columns |-> 0]
          /\ data' = None
     ELSE LET r == ReadCsv(p)
          IN IF r.ok
             THEN /\ data' = Some(r.df)
                  /\ upload_resp' =
                       [code |-> 200, rows |-> Len(r.df.rows), columns |-> Len(r.df.columns)]
             ELSE /\ upload_resp' = [code |-> 500, rows |-> 0, columns |-> 0]
                  /\ data' = None
  /\ UNCHANGED <<jobs, task, loop_job, now, summarize_resp,
                 job_reader, schema_reader, query_reader>>

\* HealthController.upload_csv with DataService.load_csv_async: the extension
\* check, the parse in the executor and, back on the loop thread, the
\* assignment self.data = df.
UploadCsv(is_csv, p) ==
  /\ loop_job = None
  /\ IF ~is_csv
     THEN /\ upload_resp' = [code |-> 400, rows |-> 0, columns |-> 0]
          /\ UNCHANGED data
     ELSE LET r == ReadCsv(p)
          IN IF r.ok
             THEN /\ data' = Some(r.df)
                  /\ upload_resp' =
                       [code |-> 200, rows |-> Shape(r.df)[1], columns |-> Shape(r.df)[2]]
             ELSE /\ upload_resp' = [code |-> 500, rows |-> 0, columns |-> 0]
                  /\ UNCHANGED data
  /\ UNCHANGED <<jobs, task, loop_job, now, summarize_resp,
                 job_reader, schema_reader, query_reader>>

\* ------------------------------------------------------------ job creation
\* Mutant: the identifier drawn may be one a job already has.
CreateSummaryJobReuse(ctx, id) ==
  /\ \A k \in 1..(id - 1) : k \in DOMAIN jobs
  /\ jobs' = [k \in DOMAIN jobs \cup {id} |-> IF k = id THEN NewJob(now) ELSE jobs[k]]
  /\ now' = now + 1
  /\ task' = IF CreateTaskRaises(ctx) THEN task
             ELSE [task EXCEPT ![id] = [pc |-> "scheduled", seen |-> None]]

\* DataService.create_summary_job called in context ctx ("loop": by code on
\* the event-loop thread, "thread": by a worker thread), drawing identifier id.
\* The record is inserted before create_task is reached.  Every reading of
\* datetime.now() is later than the readings before it.  uuid4 returns an
\* identifier no job has; which one makes no difference to any operation, so
\* identifiers are handed out in order.
CreateSummaryJob(ctx, id) ==
  /\ id \notin DOMAIN jobs
  /\ \A k \in 1..(id - 1) : k \in DOMAIN jobs
  /\ jobs' = jobs @@ (id :> NewJob(now))
  /\ now' = now + 1
  /\ task' = IF CreateTaskRaises(ctx) THEN task
             ELSE [task EXCEPT ![id] = [pc |-> "scheduled", seen |-> None]]

\* POST /api/v1/summarize: the route is a plain function, so the controller and
\* the service run in a worker thread.  Any exception becomes a 500; otherwise
\* the record is read back and returned.
HttpSummarize ==
  /\ \E id \in JobIds :
       /\ CreateSummaryJob("thread", id)
       /\ summarize_resp' =
            IF CreateTaskRaises("thread")
            THEN [code |-> 500, job_id |-> None, body |-> None]
            ELSE [code |-> 200, job_id |-> Some(id), body |-> Some(jobs'[id])]
  /\ UNCHANGED <<data, loop_job, upload_resp, job_reader, schema_reader, query_reader>>

\* create_summary_job called by a coroutine on the event-loop thread, the
\* context create_task is written for.
LoopSummarize ==
  /\ loop_job = None
  /\ \E id \in JobIds : CreateSummaryJob("loop", id)
  /\ UNCHANGED <<data, loop_job, upload_resp, summarize_resp,
                 job_reader, schema_reader, query_reader>>

\* ------------------------------------------------------ the background task
\* Mutant: the coroutine's first statement marks every pending job running.
TaskStartMarksAll(j) ==
  /\ loop_job = None
  /\ task[j].pc = "scheduled"
  /\ jobs' = [k \in DOMAIN jobs |->
               IF jobs[k].status = "pending" THEN MarkRunning(jobs[k]) ELSE jobs[k]]
  /\ task' = [task EXCEPT ![j].pc = "started"]
  /\ loop_job' = Some(j)
  /\ UNCHANGED <<data, now, upload_resp, summarize_resp,
                 job_reader, schema_reader, query_reader>>

\* Line 67: the coroutine's first statement.
TaskStart(j) ==
  /\ loop_job = None
  /\ task[j].pc = "scheduled"
  /\ jobs' = [jobs EXCEPT ![j] = MarkRunning(@)]
  /\ task' = [task EXCEPT ![j].pc = "started"]
  /\ loop_job' = Some(j)
  /\ UNCHANGED <<data, now, upload_resp, summarize_resp,
                 job_reader, schema_reader, query_reader>>

\* Lines 69-73 (and 92-97 when the check raises): the store is read once; the
\* coroutine then fails, or goes to sleep and yields the loop.
TaskCheck(j) ==
  /\ loop_job = Some(j)
  /\ task[j].pc = "started"
  /\ IF data = None
     THEN /\ jobs' = [jobs EXCEPT ![j] = MarkFailed(@, now, "No data loaded")]
          /\ task' = [task EXCEPT ![j].pc = "done"]
          /\ now' = now + 1
     ELSE /\ task' = [task EXCEPT ![j] = [pc |-> "sleeping", seen |-> data]]
          /\ UNCHANGED <<jobs, now>>
  /\ loop_job' = None
  /\ UNCHANGED <<data, upload_resp, summarize_resp,
                 job_reader, schema_reader, query_reader>>

\* Lines 76-97 after the sleep: the three helpers read self.data again, and the
\* record is updated once, to completed or to failed.
TaskFinish(j) ==
  /\ loop_job = None
  /\ task[j].pc = "sleeping"
  /\ LET s == Summarize(data[1])
     IN jobs' = [jobs EXCEPT ![j] =
                   IF s.ok THEN MarkCompleted(@, now, s.result)
                   ELSE MarkFailed(@, now, s.err)]
  /\ task' = [task EXCEPT ![j].pc = "done"]
  /\ now' = now + 1
  /\ UNCHANGED <<data, loop_job, upload_resp, summarize_resp,
                 job_reader, schema_reader, query_reader>>

\* --------------------------------------------------- GET /api/v1/jobs/{id}
\* An identifier no job has: 0 stands for a string uuid4 never returns.
RequestIds == JobIds \cup {0}

\* DataService.get_job_status: ValueError (404) for an unknown identifier,
\* else the live record itself, not a copy.
JobLookup(id) ==
  /\ job_reader.pc = "idle"
  /\ job_reader' =
       IF id \notin DOMAIN jobs
       THEN [IdleJobReader EXCEPT !.id = id, !.code = 404]
       ELSE [IdleJobReader EXCEPT !.pc = "holding", !.id = id,
                                  !.at_lookup = jobs[id].status]
  /\ UNCHANGED <<data, jobs, task, loop_job, now, upload_resp, summarize_resp,
                 schema_reader, query_reader>>

\* HealthController.get_job_result line 90: JobResponse(job_id=..., **job_data)
\* copies every field of the live record in one step.
JobRespond ==
  /\ job_reader.pc = "holding"
  /\ job_reader' = [job_reader EXCEPT
       !.pc = "idle", !.code = 200, !.body = Some(jobs[job_reader.id])]
  /\ UNCHANGED <<data, jobs, task, loop_job, now, upload_resp, summarize_resp,
                 schema_reader, query_reader>>

\* Mutant: a schema request on an empty store is answered 200 with an empty
\* schema.
SchemaCheckLenient ==
  /\ schema_reader.pc = "idle"
  /\ schema_reader' =
       IF data = None THEN [IdleSchemaReader EXCEPT !.code = 200]
       ELSE [IdleSchemaReader EXCEPT !.pc = "columns"]
  /\ UNCHANGED <<data, jobs, task, loop_job, now, upload_resp, summarize_resp,
                 job_reader, query_reader>>

\* --------------------------------------------------- GET /api/v1/schema
\* DataService.get_schema reads self.data once per statement below; the worker
\* thread can be preempted between any two of them.
\* Line 25: the None check.  ValueError becomes a 400.
SchemaCheck ==
  /\ schema_reader.pc = "idle"
  /\ schema_reader' =
       IF data = None THEN [IdleSchemaReader EXCEPT !.code = 400]
       ELSE [IdleSchemaReader EXCEPT !.pc = "columns"]
  /\ UNCHANGED <<data, jobs, task, loop_job, now, upload_resp, summarize_resp,
                 job_reader, query_reader>>

\* Line 29: "columns": self.data.columns.
SchemaColumns ==
  /\ schema_reader.pc = "columns"
  /\ schema_reader' = [schema_reader EXCEPT !.pc = "zip_columns", !.columns = data[1].columns]
  /\ UNCHANGED <<data, jobs, task, loop_job, now, upload_resp, summarize_resp,
                 job_reader, query_reader>>

\* Line 30, first argument of zip: self.data.columns.
SchemaZipColumns ==
  /\ schema_reader.pc = "zip_columns"
  /\ schema_reader' = [schema_reader EXCEPT !.pc = "dtypes", !.zip_columns = data[1].columns]
  /\ UNCHANGED <<data, jobs, task, loop_job, now, upload_resp, summarize_resp,
                 job_reader, query_reader>>

\* zip(columns, dtypes): pairs up to the shorter of the two.
Zip(cols, dts) ==
  [i \in 1..(IF Len(cols) < Len(dts) THEN Len(cols) ELSE Len(dts)) |->
    [column |-> cols[i], dtype |-> dts[i]]]

\* Line 30, second argument of zip: self.data.dtypes, and the comprehension.
SchemaDtypes ==
  /\ schema_reader.pc = "dtypes"
  /\ schema_reader' = [schema_reader EXCEPT
       !.pc = "shape", !.dtypes = Zip(schema_reader.zip_columns, data[1].dtypes)]
  /\ UNCHANGED <<data, jobs, task, loop_job, now, upload_resp, summarize_resp,
                 job_reader, query_reader>>

\* Line 31: "shape": self.data.shape.
SchemaShape ==
  /\ schema_reader.pc = "shape"
  /\ schema_reader' = [schema_reader EXCEPT !.pc = "sample", !.shape = Shape(data[1])]
  /\ UNCHANGED <<data, jobs, task, loop_job, now, upload_resp, summarize_resp,
                 job_reader, query_reader>>

\* Line 32: "sample_data": self.data.head(5).to_dicts(); the response is 200.
SchemaSample ==
  /\ schema_reader.pc = "sample"
  /\ schema_reader' = [schema_reader EXCEPT
       !.pc = "idle", !.code = 200,
       !.sample_data = ToDicts(FrameHead(data[1], SampleRows))]
  /\ UNCHANGED <<data, jobs, task, loop_job, now, upload_resp, summarize_resp,
                 job_reader, query_reader>>

\* The whole of get_schema evaluated on one frame.
SchemaOf(df) ==
  [columns |-> df.columns,
   dtypes |-> Zip(df.columns, df.dtypes),
   shape |-> Shape(df),
   sample_data |-> ToDicts(FrameHead(df, SampleRows))]

\* ------------------------------------------------ GET /api/v1/query/...
\* The two columns the routes filter on, and a column only CsvText has.
FilterColumns == {"SEX (DISPLAY)", "YEAR (DISPLAY)", "y"}

FilterValues == {<<"M">>, <<"2">>, <<>>}

Filters == [column : FilterColumns, value : FilterValues]

FilterLists == UNION {[1..n -> Filters] : n \in 0..MaxFilters}

\* Line 37: the None check.  ValueError becomes a 400.
QueryCheck(filters, limit) ==
  /\ query_reader.pc = "idle"
  /\ query_reader' =
       IF data = None
       THEN [IdleQueryReader EXCEPT !.code = 400, !.filters = filters, !.limit = limit]
       ELSE [IdleQueryReader EXCEPT !.pc = "bound", !.filters = filters, !.limit = limit]
  /\ UNCHANGED <<data, jobs, task, loop_job, now, upload_resp, summarize_resp,
                 job_reader, schema_reader>>

\* Lines 40-47: df = self.data is the only later read of the store.
QueryRun ==
  /\ query_reader.pc = "bound"
  /\ query_reader' = [query_reader EXCEPT
       !.pc = "idle", !.code = 200,
       !.rows = QueryData(data[1], query_reader.filters, query_reader.limit)]
  /\ UNCHANGED <<data, jobs, task, loop_job, now, upload_resp, summarize_resp,
                 job_reader, schema_reader>>

\* Job creation from both contexts, the tasks and the loads that replace the
\* frame under them.  Rejected uploads change nothing but their own response
\* and are left to SchemaSpec and QuerySpec.
Next ==
  \/ \E p \in ValidPayloads : UploadCsv(TRUE, p)
  \/ HttpSummarize
  \/ LoopSummarize
  \/ \E j \in JobIds : TaskStart(j)
  \/ \E j \in JobIds : TaskCheck(j)
  \/ \E j \in JobIds : TaskFinish(j)

Spec == Init /\ [][Next]_vars

\* The event loop runs every coroutine that is ready: a task that can take a
\* step eventually takes it.
FairSpec ==
  /\ Spec
  /\ \A j \in JobIds :
       WF_vars(TaskStart(j)) /\ WF_vars(TaskCheck(j)) /\ WF_vars(TaskFinish(j))

\* Job creation on the loop, the tasks, and a worker thread polling job records.
JobReadNext ==
  \/ \E p \in {CsvHealth, CsvHeaderOnly} : UploadCsv(TRUE, p)
  \/ LoopSummarize
  \/ \E j \in JobIds : TaskStart(j)
  \/ \E j \in JobIds : TaskCheck(j)
  \/ \E j \in JobIds : TaskFinish(j)
  \/ \E id \in RequestIds : JobLookup(id)
  \/ JobRespond

JobReadSpec == Init /\ [][JobReadNext]_vars

\* Uploads on the loop against a worker thread reading the schema.
SchemaNext ==
  \/ \E is_csv \in BOOLEAN, p \in Payloads : UploadCsv(is_csv, p)
  \/ SchemaCheck
  \/ SchemaColumns
  \/ SchemaZipColumns
  \/ SchemaDtypes
  \/ SchemaShape
  \/ SchemaSample

SchemaSpec == Init /\ [][SchemaNext]_vars

\* What the sex and year routes can pass: at most their one filter.
RouteFilterLists == {<<>>} \cup {<<f>> : f \in Filters}

\* A client that uploads, asks for the schema and queries in turn: no upload
\* arrives while a schema request or a query is being served.
LoadThenSchemaNext ==
  \/ /\ schema_reader.pc = "idle"
     /\ query_reader.pc = "idle"
     /\ \E is_csv \in BOOLEAN, p \in Payloads : UploadCsv(is_csv, p)
  \/ /\ schema_reader.pc = "idle"
     /\ \E f \in RouteFilterLists : QueryCheck(f, MaxLimit)
  \/ QueryRun
  \/ SchemaCheck
  \/ SchemaColumns
  \/ SchemaZipColumns
  \/ SchemaDtypes
  \/ SchemaShape
  \/ SchemaSample

LoadThenSchemaSpec == Init /\ [][LoadThenSchemaNext]_vars

\* Successful uploads on the loop against a worker thread running a query.
\* A run follows one query, whatever its arguments, from its arrival to its
\* response.
QueryNext ==
  \/ \E p \in ValidPayloads : UploadCsv(TRUE, p)
  \/ /\ query_reader.code = 0
     /\ \E f \in FilterLists, limit \in 1..MaxLimit : QueryCheck(f, limit)
  \/ QueryRun

QuerySpec == Init /\ [][QueryNext]_vars

\* The store and the registry under every request that reads the store:
\* uploads that fail or succeed, POST /summarize, the schema route and the query
\* routes.
StoreNext ==
  \/ \E is_csv \in BOOLEAN, p \in {CsvHealth, CsvRagged} : UploadCsv(is_csv, p)
  \/ HttpSummarize
  \/ SchemaCheck
  \/ SchemaColumns
  \/ SchemaZipColumns
  \/ SchemaDtypes
  \/ SchemaShape
  \/ SchemaSample
  \/ \E f \in RouteFilterLists, limit \in 1..MaxLimit : QueryCheck(f, limit)
  \/ QueryRun

StoreSpec == Init /\ [][StoreNext]_vars

\* The job route beside both ways a job gets into the registry.
RegistryNext ==
  \/ JobReadNext
  \/ HttpSummarize

RegistrySpec == Init /\ [][RegistryNext]_vars

\* Every operation of the service in one run: uploads, both ways of creating a
\* job and the tasks on the loop, beside one worker-thread request, which is a
\* job lookup, a schema request or a query.
NoWorkerRequest ==
  /\ job_reader = IdleJobReader
  /\ schema_reader = IdleSchemaReader
  /\ query_reader = IdleQueryReader

AllNext ==
  \/ \E p \in {CsvHealth, CsvRagged} : UploadCsv(TRUE, p)
  \/ HttpSummarize
  \/ LoopSummarize
  \/ \E j \in JobIds : TaskStart(j)
  \/ \E j \in JobIds : TaskCheck(j)
  \/ \E j \in JobIds : TaskFinish(j)
  \/ NoWorkerRequest /\ \E id \in RequestIds : JobLookup(id)
  \/ JobRespond
  \/ NoWorkerRequest /\ SchemaCheck
  \/ SchemaColumns
  \/ SchemaZipColumns
  \/ SchemaDtypes
  \/ SchemaShape
  \/ SchemaSample
  \/ NoWorkerRequest /\ \E f \in RouteFilterLists : QueryCheck(f, MaxLimit)
  \/ QueryRun

AllSpec == Init /\ [][AllNext]_vars

\* ------------------------------------------------------------------- claims
Terminal(rec) == rec.status \in {"completed", "failed"}

\* C1: a job record only changes by a step pending -> running or a step
\* running -> completed/failed; no step removes it, skips running, goes back,
\* or changes any field of a record that is completed or failed.
C1_StatusMonotone ==
  [][\A j \in DOMAIN jobs :
       /\ j \in DOMAIN jobs'
       /\ jobs'[j] # jobs[j] =>
            \/ jobs[j].status = "pending" /\ jobs'[j].status = "running"
            \/ jobs[j].status = "running" /\ Terminal(jobs'[j])]_vars

\* Both terminal states have been reached through running.
C1_Witness ==
  /\ \E j \in DOMAIN jobs : jobs[j].status = "completed" /\ task[j].pc = "done"
  /\ \E j \in DOMAIN jobs : jobs[j].status = "failed" /\ task[j].pc = "done"

\* C2 (as claimed): every job in the registry eventually is completed or failed.
C2_EveryJobTerminates ==
  \A j \in JobIds :
    [](j \in DOMAIN jobs => <>(j \in DOMAIN jobs /\ Terminal(jobs[j])))

\* C3: a completed job has a result and no error, a failed job has an error
\* and no result.
C3_ExactlyOneOutcome ==
  \A j \in DOMAIN jobs :
    /\ jobs[j].status = "completed" => jobs[j].result # None /\ jobs[j].error = None
    /\ jobs[j].status = "failed" => jobs[j].error # None /\ jobs[j].result = None

\* A job completed with its result beside a job that failed inside the engine.
C3_Witness ==
  /\ \E j \in DOMAIN jobs : jobs[j].status = "completed" /\ jobs[j].result # None
  /\ \E j \in DOMAIN jobs :
       jobs[j].status = "failed" /\ jobs[j].error = Some("division by zero")

\* C4 (as claimed): the outcome of a finished task is the summary of the frame
\* its start check saw, whatever was loaded while it slept.
C4_ResultFromStartDataset ==
  \A j \in DOMAIN jobs :
    task[j].pc = "done" /\ task[j].seen # None =>
      LET s == Summarize(task[j].seen[1])
      IN IF s.ok
         THEN jobs[j].status = "completed" /\ jobs[j].result = Some(s.result)
         ELSE jobs[j].status = "failed" /\ jobs[j].error = Some(s.err)

\* C5 (as claimed): the four parts of a schema response all describe one frame.
C5_SchemaFromOneDataset ==
  schema_reader.pc = "idle" /\ schema_reader.code = 200 =>
    \E df \in Frames :
      /\ schema_reader.columns = SchemaOf(df).columns
      /\ schema_reader.dtypes = SchemaOf(df).dtypes
      /\ schema_reader.shape = SchemaOf(df).shape
      /\ schema_reader.sample_data = SchemaOf(df).sample_data

\* The shape of a record before it is terminal, or after one whole transition.
WholeRecord(rec) ==
  \/ /\ rec.status \in {"pending", "running"}
     /\ rec.completed_at = None /\ rec.result = None /\ rec.error = None
  \/ /\ rec.status = "completed"
     /\ rec.completed_at # None /\ rec.result # None /\ rec.error = None
  \/ /\ rec.status = "failed"
     /\ rec.completed_at # None /\ rec.result = None /\ rec.error # None

\* C6: the record a reader returns is whole: all fields as before the task's
\* transition or all as after, also when the transition happens between the
\* reader's lookup and its copy.
C6_ReaderSeesWholeRecord ==
  job_reader.code = 200 => WholeRecord(job_reader.body[1])

\* A reader took its reference while the job was running and copied the record
\* after the task had made it terminal.
C6_Witness ==
  /\ job_reader.code = 200
  /\ job_reader.at_lookup = "running"
  /\ Terminal(job_reader.body[1])

\* C7 (as claimed, and allowing for a frame loaded before the task's check): a
\* job in the registry while no frame is loaded eventually is failed with the
\* no-data error.
C7_NoDataJobFails ==
  \A j \in JobIds :
    [](j \in DOMAIN jobs /\ data = None =>
         <>(\/ data # None
            \/ /\ j \in DOMAIN jobs
               /\ jobs[j].status = "failed"
               /\ jobs[j].error = Some("No data loaded")))

\* C8: while no frame has been loaded, every answer of POST /api/v1/summarize
\* is a 500 without a job record.
C8_SummarizeWithoutData500 ==
  data = None /\ summarize_resp # NoSummarizeResp =>
    /\ summarize_resp.code = 500
    /\ summarize_resp.job_id = None
    /\ summarize_resp.body = None

\* The request was served with nothing loaded, and left its record behind.
C8_Witness ==
  /\ data = None
  /\ summarize_resp.code = 500
  /\ \E j \in DOMAIN jobs : jobs[j].status = "pending" /\ task[j].pc = "none"

\* C9 (as claimed): POST /api/v1/summarize inserts a pending job, and with a
\* frame loaded it answers 200 with a record that is pending or running.
C9_CreatorSeesPendingOrRunning ==
  [][HttpSummarize =>
       /\ \A j \in DOMAIN jobs' \ DOMAIN jobs : jobs'[j].status = "pending"
       /\ data # None =>
            /\ summarize_resp'.code = 200
            /\ summarize_resp'.body # None
            /\ summarize_resp'.body[1].status \in {"pending", "running"}]_vars

\* C10: a pending or running job has no completed_at, no result and no error.
C10_UnsetUntilTerminal ==
  \A j \in DOMAIN jobs :
    jobs[j].status \in {"pending", "running"} =>
      jobs[j].completed_at = None /\ jobs[j].result = None /\ jobs[j].error = None

\* A job asleep in running next to a job already stamped terminal.
C10_Witness ==
  /\ \E j \in DOMAIN jobs : jobs[j].status = "running" /\ task[j].pc = "sleeping"
  /\ \E j \in DOMAIN jobs : Terminal(jobs[j]) /\ jobs[j].completed_at # None

\* Whether row r of df passes filter f as the claims put it: the column is not
\* one of df's, or the cell's text contains the match string.
RowMatches(df, r, f) ==
  \A c \in 1..Len(df.columns) :
    df.columns[c] = f.column =>
      ~df.rows[r][c].null /\ Contains(CastUtf8(df.rows[r][c], df.dtypes[c]), f.value)

MatchingRows(df, filters) ==
  {r \in 1..Len(df.rows) : \A i \in 1..Len(filters) : RowMatches(df, r, filters[i])}

\* The k-th smallest element of a set of row numbers.
KthRow(S, k) == CHOOSE r \in S : Cardinality({q \in S : q <= r}) = k

\* C11: a query answers with the first `limit` rows, in row order, of the rows
\* that pass every filter whose column the frame has; so never more than
\* `limit` records, and each passes all those filters.
C11_QueryFirstLimitMatches ==
  [][QueryRun =>
       LET df == data[1]
           kept == MatchingRows(df, query_reader.filters)
           out == query_reader'.rows
       IN /\ query_reader'.code = 200
          /\ Len(out) <= query_reader.limit
          /\ Len(out) = (IF Cardinality(kept) < query_reader.limit
                         THEN Cardinality(kept) ELSE query_reader.limit)
          /\ \A k \in 1..Len(out) :
               out[k] = [c \in 1..Len(df.columns) |->
                          [column |-> df.columns[c],
                           value |-> df.rows[KthRow(kept, k)][c]]]]_vars

\* Two filters on columns of the frame, one on the integer column, kept the
\* second row only although the limit allowed two.
C11_Witness ==
  /\ query_reader.code = 200
  /\ Len(query_reader.filters) = 2
  /\ \A i \in 1..2 : query_reader.filters[i].column \in {"SEX (DISPLAY)", "YEAR (DISPLAY)"}
  /\ query_reader.limit = 2
  /\ Len(query_reader.rows) = 1
  /\ query_reader.rows[1][1].value = StrCell(<<"F">>)

\* s without its element at position i.
RemoveAt(s, i) == SubSeq(s, 1, i - 1) \o SubSeq(s, i + 1, Len(s))

\* C12: a filter on a column the frame lacks changes nothing: the answer to a
\* filter list holding one, at any position, is a 200 with the records the
\* list without it gives.
C12_UnknownColumnIsNoOp ==
  [][QueryRun =>
       \A i \in 1..Len(query_reader.filters) :
         ColumnIndex(data[1], query_reader.filters[i].column) = 0 =>
           /\ query_reader'.code = 200
           /\ query_reader'.rows =
                QueryData(data[1], RemoveAt(query_reader.filters, i), query_reader.limit)]_vars

\* A filter on a missing column stood first, before one that narrowed the rows.
C12_Witness ==
  /\ query_reader.code = 200
  /\ Len(query_reader.filters) = 2
  /\ query_reader.filters[1].column = "y"
  /\ query_reader.filters[2] = [column |-> "YEAR (DISPLAY)", value |-> <<"2">>]
  /\ Len(query_reader.rows) = 1

\* C13: while no dataset is loaded, the schema request and every query request
\* are answered with the no-data error (400), and neither changes the store or
\* the job registry.
C13_NoDataRequestsFail ==
  [][/\ (SchemaCheck /\ data = None) =>
          /\ schema_reader' = [IdleSchemaReader EXCEPT !.code = 400]
          /\ data' = None
          /\ jobs' = jobs
     /\ \A f \in RouteFilterLists, limit \in 1..MaxLimit :
          (QueryCheck(f, limit) /\ data = None) =>
            /\ query_reader'.code = 400
            /\ query_reader'.pc = "idle"
            /\ query_reader'.rows = <<>>
            /\ data' = None
            /\ jobs' = jobs]_vars

\* Both requests were refused on an empty store, after rejected uploads and
\* with a job in the registry.
C13_Witness ==
  /\ data = None
  /\ schema_reader.code = 400
  /\ query_reader.code = 400
  /\ Len(query_reader.filters) = 1
  /\ upload_resp.code = 500
  /\ DOMAIN jobs # {}

\* create_summary_job returned id to its caller: line 62 was reached, so the
\* task of line 61 exists.
Returned(id) == id \in JobIds /\ task[id].pc # "none"

\* C14: a status request for an identifier create_summary_job never returned is
\* answered 404 and leaves the registry unchanged; one for a returned
\* identifier finds that job's record.
C14_LookupOnlyReturnedIds ==
  [][\A id \in RequestIds :
       JobLookup(id) =>
         /\ jobs' = jobs
         /\ IF Returned(id)
            THEN job_reader'.pc = "holding" /\ job_reader'.id = id
            ELSE job_reader'.code = 404]_vars

\* The successful load of payload p.
LoadOf(p) == UploadCsv(TRUE, p) /\ ReadCsv(p).ok

\* C15: a successful load of a payload with R data rows and header h1..hC
\* reports (R, C) and makes the store hold that payload's frame and nothing
\* else; the store changes in no other way; and a schema request served with no
\* load in between reports shape (R, C) and columns h1..hC of the payload last
\* loaded.
C15_LoadThenSchema ==
  [][/\ \A p \in Payloads :
          LoadOf(p) =>
            /\ upload_resp' = [code |-> 200, rows |-> Len(p.lines), columns |-> Len(p.header)]
            /\ data' = Some(ReadCsv(p).df)
     /\ data' # data => \E p \in Payloads : LoadOf(p)
     /\ SchemaSample =>
          \E p \in ValidPayloads :
            /\ data = Some(ReadCsv(p).df)
            /\ schema_reader'.code = 200
            /\ schema_reader'.columns = p.header
            /\ schema_reader'.shape = <<Len(p.lines), Len(p.header)>>
            /\ \A q \in ValidPayloads : data = Some(ReadCsv(q).df) => q = p]_vars

\* The header-only payload replaced a dataset a query had found rows in, and
\* the schema served afterwards shows its one column and no row.
C15_Witness ==
  /\ query_reader.code = 200
  /\ query_reader.rows # <<>>
  /\ schema_reader.code = 200
  /\ schema_reader.shape = <<0, 1>>
  /\ schema_reader.columns = CsvHeaderOnly.header
  /\ schema_reader.sample_data = <<>>
  /\ upload_resp = [code |-> 200, rows |-> 0, columns |-> 1]

\* C16: an upload refused for its extension is answered 400, one whose payload
\* does not parse is answered 500, and either leaves the store as it was, held
\* dataset or none.
C16_FailedUploadKeepsStore ==
  [][\A is_csv \in BOOLEAN, p \in Payloads :
       (UploadCsv(is_csv, p) /\ (~is_csv \/ ~ReadCsv(p).ok)) =>
         /\ data' = data
         /\ upload_resp'.code = (IF ~is_csv THEN 400 ELSE 500)]_vars

\* A payload failed to parse while a dataset was held; the store still holds
\* that dataset.
C16_Witness ==
  /\ upload_resp.code = 500
  /\ data = Some(ReadCsv(CsvHealth).df)
  /\ schema_reader.code = 200

\* C17: on every loaded dataset, one with a header and no rows included, the
\* missing-value computation does not fail and has an entry for every column,
\* and the summary job over the dataset ends completed.
C17_MissingValuesEveryColumn ==
  [][\A j \in JobIds :
       TaskFinish(j) =>
         /\ GetMissingValues(data[1]).ok
         /\ Len(GetMissingValues(data[1]).missing) = Len(data[1].columns)
         /\ jobs'[j].status = "completed"]_vars

\* The result a completed job must carry for frame df: the three parts and no
\* other; a distribution for each of the first min(5, C) columns in schema
\* order, the error marker where the column's counts could not be computed and
\* the counts of its values elsewhere; the marker for a frame without a numeric
\* column.
ExpectedResult(df, r) ==
  LET C == Len(df.columns)
      n == IF C < 5 THEN C ELSE 5
  IN /\ DOMAIN r = {"basic_statistics", "missing_values", "distributions"}
     /\ Len(r.distributions) = n
     /\ \A c \in 1..n :
          /\ r.distributions[c].column = df.columns[c]
          /\ IF ValueCountsFails(df, c)
             THEN r.distributions[c].error = "Could not compute distribution"
             ELSE /\ r.distributions[c].error = ""
                  /\ \A v \in {df.rows[q][c] : q \in 1..Len(df.rows)} :
                       \E e \in r.distributions[c].counts :
                         /\ e.value = v
                         /\ e.count = Cardinality({q \in 1..Len(df.rows) : df.rows[q][c] = v})
     /\ (\A c \in 1..C : df.dtypes[c] \notin NumericDtypes) =>
          r.basic_statistics.message = "No numeric columns found"

\* C18: a completed job's result has exactly the parts basic_statistics,
\* missing_values and distributions, with a distribution for each of the first
\* min(5, C) columns and no other; a column whose distribution fails gets its
\* error marker and a frame without numeric columns the no-numeric marker, and
\* neither makes the job fail.
C18_ResultParts ==
  [][\A j \in JobIds :
       TaskFinish(j) =>
         /\ jobs'[j].status = "completed" => ExpectedResult(data[1], jobs'[j].result[1])
         /\ Len(data[1].rows) > 0 => jobs'[j].status = "completed"]_vars

\* A job completed on the frame of six text columns, one of them named
\* "count": five distributions, the fourth the error marker, and the
\* no-numeric marker.
C18_Witness ==
  \E j \in DOMAIN jobs :
    /\ jobs[j].status = "completed"
    /\ Len(jobs[j].result[1].distributions) = 5
    /\ jobs[j].result[1].distributions[4].error = "Could not compute distribution"
    /\ jobs[j].result[1].distributions[1].error = ""
    /\ jobs[j].result[1].basic_statistics.message = "No numeric columns found"
    /\ Len(jobs[j].result[1].missing_values) = 6

\* A step of the background task of job j.
TaskStep(j) == TaskStart(j) \/ TaskCheck(j) \/ TaskFinish(j)

\* A step of load_csv_async, get_schema, query_data or get_job_status.
StoreOrLookupStep ==
  \/ \E is_csv \in BOOLEAN, p \in Payloads : UploadCsv(is_csv, p)
  \/ SchemaCheck \/ SchemaColumns \/ SchemaZipColumns
  \/ SchemaDtypes \/ SchemaShape \/ SchemaSample
  \/ \E f \in RouteFilterLists : QueryCheck(f, MaxLimit)
  \/ QueryRun
  \/ \E id \in RequestIds : JobLookup(id)
  \/ JobRespond

\* C19: a job's record changes only in a step of the task bound to its
\* identifier: a step of job j's task leaves every other record as it was, and
\* a load, a schema request, a query, a job lookup and the creation of a job
\* leave every existing record as it was.
C19_OnlyOwnTaskMutates ==
  [][/\ \A k \in DOMAIN jobs :
          (k \notin DOMAIN jobs' \/ jobs'[k] # jobs[k]) => TaskStep(k)
     /\ \A j \in JobIds :
          TaskStep(j) => \A k \in DOMAIN jobs \ {j} : k \in DOMAIN jobs' /\ jobs'[k] = jobs[k]
     /\ StoreOrLookupStep => jobs' = jobs
     /\ (HttpSummarize \/ LoopSummarize) =>
          \A k \in DOMAIN jobs : k \in DOMAIN jobs' /\ jobs'[k] = jobs[k]]_vars

\* One job's task has finished while another job is still pending, and a
\* lookup has been answered since.
C19_Witness ==
  /\ \E j, k \in DOMAIN jobs :
       /\ jobs[j].status = "completed"
       /\ jobs[k].status = "pending"
       /\ jobs[k].created_at < jobs[j].created_at
  /\ job_reader.code = 200

\* C20: jobs are never deleted or replaced: an identifier in the registry stays
\* in it with the created_at it was inserted with, and every creation adds one
\* record, pending and stamped with the current time, under an identifier the
\* registry did not have, leaving the others as they were.
C20_RegistryOnlyGrows ==
  [][/\ \A k \in DOMAIN jobs :
          k \in DOMAIN jobs' /\ jobs'[k].created_at = jobs[k].created_at
     /\ (HttpSummarize \/ LoopSummarize) =>
          \E id \in JobIds \ DOMAIN jobs :
            /\ DOMAIN jobs' = DOMAIN jobs \cup {id}
            /\ jobs'[id].status = "pending"
            /\ jobs'[id].created_at = now
            /\ \A k \in DOMAIN jobs : jobs'[k] = jobs[k]]_vars

\* Two creations, one on each path, with the first job already finished: both
\* records are held under their own creation times.
C20_Witness ==
  /\ Cardinality(DOMAIN jobs) >= 2
  /\ \E j, k \in DOMAIN jobs :
       /\ jobs[j].created_at < jobs[k].created_at
       /\ Terminal(jobs[j])
       /\ jobs[k].status = "pending"
  /\ summarize_resp.code = 500

\* C21: once a load has succeeded the store is never empty again, so a job
\* whose task found a dataset at its start check never ends failed with the
\* no-data error, whatever is loaded while it runs.
C21_StoreStaysLoaded ==
  [][/\ data # None => data' # None
     /\ \A j \in DOMAIN jobs' :
          task'[j].seen # None => jobs'[j].error # Some("No data loaded")]_vars

\* A job's task found a dataset at its check, another dataset was loaded while
\* it slept, and the job has ended.
C21_Witness ==
  \E j \in DOMAIN jobs :
    /\ task[j].pc = "done"
    /\ task[j].seen # None
    /\ task[j].seen # data
    /\ Terminal(jobs[j])

====
